---- MODULE Spec2Model ----
(***************************************************************************)
(* Model of drmax-gitlab-azdo-migration (src/main.go): the translator      *)
(* functions (translatePullRequest, translateDiscussion, translateNote,    *)
(* prepareNoteBody) as operators, and the orchestrator (main,              *)
(* processProject, importRepository, importMergeRequests, importComments,  *)
(* importCommentThread) as a state machine with one action per API call.   *)
(*                                                                         *)
(* Go pointers are modelled as options: Nil is the nil pointer, Ptr(x) a   *)
(* pointer to x.  Strings built with fmt.Sprintf are modelled as records   *)
(* or tuples of their parts.                                               *)
(***************************************************************************)
EXTENDS Integers, Sequences, FiniteSets, TLC

\* ------------------------------------------------------------------ bounds
\* Largest number of notes in a discussion given to translateDiscussion.
MaxNotes == 3
\* Largest number of tokens in a note body given to prepareNoteBody.
MaxBody == 4
\* Largest number of projects in the configuration file.
MaxProjects == 2
\* Largest page number the source platform serves for one listing.
MaxPage == 2
\* Largest number of items (merge requests, discussions) on one page.
MaxItems == 2

\* ---------------------------------------------------------------- pointers
Nil == <<>>
Ptr(x) == <<x>>
Deref(p) == p[1]

\* ------------------------------------------------------------ note bodies
\* A body is a sequence of tokens: SUG is the opening fence of a suggestion
\* block (three backticks, written [fence] here, and the word suggestion:
\* the parser accepts no backtick in a string), COLON the colon that
\* starts its range qualifier, NL the line feed, CHAR any other character.
SUG == "[fence]suggestion"
COLON == ":"
NL == "\n"
CHAR == "x"
\* The replacement text main.go:257 puts before the suggestion marker.
WARN == "Multiline suggestions are not supported in AzDO - if suggestion is multiline, commit it manually"

BodyTokens == {SUG, COLON, NL, CHAR}

RECURSIVE SeqsUpTo(_, _)
SeqsUpTo(S, n) ==
    IF n = 0 THEN {<<>>}
    ELSE LET shorter == SeqsUpTo(S, n - 1)
         IN  shorter \cup {Append(s, x) : s \in {t \in shorter : Len(t) = n - 1}, x \in S}

Bodies == SeqsUpTo(BodyTokens, MaxBody)

\* The text from the end of the current line on: the dot of the regular
\* expression does not match a line feed.
RECURSIVE SkipLine(_)
SkipLine(s) ==
    IF s = <<>> \/ Head(s) = NL THEN s ELSE SkipLine(Tail(s))

\* SuggestionReplacer.ReplaceAllString(body, repl): every leftmost
\* non-overlapping match of the expression, i.e. the suggestion fence followed
\* by a colon and the rest of its line, becomes repl.
RECURSIVE ReplaceAllString(_, _)
ReplaceAllString(body, repl) ==
    IF body = <<>> THEN <<>>
    ELSE IF Len(body) >= 2 /\ body[1] = SUG /\ body[2] = COLON
         THEN repl \o ReplaceAllString(SkipLine(Tail(Tail(body))), repl)
         ELSE <<Head(body)>> \o ReplaceAllString(Tail(body), repl)

\* ------------------------------------------------------------------ notes
\* gitlab.NotePosition with the fields the program reads.
Position(path, line, range) == [NewPath |-> path, NewLine |-> line, LineRange |-> range]
LineRange(start, end) == [StartRange |-> [NewLine |-> start], EndRange |-> [NewLine |-> end]]

\* The positions a note is given: none, one without a path, one on a single
\* line, one with a one-line range and one with the range 1-2.
Positions ==
    { Nil,
      Ptr(Position("", 1, Nil)),
      Ptr(Position("README.md", 2, Nil)),
      Ptr(Position("README.md", 1, Ptr(LineRange(1, 1)))),
      Ptr(Position("README.md", 2, Ptr(LineRange(1, 2)))) }

\* gitlab.Note with the fields the program reads; the author and the two
\* timestamps are copied through unchanged and are the same for every note.
Author == [Name |-> "John Doe", Username |-> "john-doe",
           AvatarURL |-> "https://www.gravatar.com/avatar/0",
           WebURL |-> "https://gitlab.com/john-doe"]

Note(id, system, resolved, position, body) ==
    [ID |-> id, System |-> system, Resolved |-> resolved, Position |-> position,
     Body |-> body, Author |-> Author, CreatedAt |-> "createdAt", UpdatedAt |-> "updatedAt"]

\* prepareNoteLink: "%s/diffs#note_%d"
prepareNoteLink(note, mr) == <<mr.WebURL, "/diffs#note_", note.ID>>

\* IsMultiline without the test for the first note.
IsMultilineAnyNote(note, id) ==
    /\ note.Position # Nil
    /\ Deref(note.Position).LineRange # Nil
    /\ Deref(Deref(note.Position).LineRange).StartRange.NewLine
         # Deref(Deref(note.Position).LineRange).EndRange.NewLine

\* The condition of main.go:254: the first note of a discussion, placed on
\* a range of more than one line.
IsMultiline(note, id) ==
    /\ id = 1
    /\ note.Position # Nil
    /\ Deref(note.Position).LineRange # Nil
    /\ Deref(Deref(note.Position).LineRange).StartRange.NewLine
         # Deref(Deref(note.Position).LineRange).EndRange.NewLine

\* prepareNoteBody: the rendered content, as the parts of its format string.
prepareNoteBody(mr, note, id) ==
    LET multiline == IsMultiline(note, id)
        lineRange ==
            IF multiline
            THEN <<"| Multiline comment ",
                   Deref(Deref(note.Position).LineRange).StartRange.NewLine, "-",
                   Deref(Deref(note.Position).LineRange).EndRange.NewLine>>
            ELSE <<>>
        body1 ==
            IF multiline
            THEN ReplaceAllString(note.Body, <<WARN, NL, SUG>>)
            ELSE note.Body
        body2 == ReplaceAllString(body1, <<SUG>>)
    IN  [link |-> prepareNoteLink(note, mr), author |-> note.Author,
         lineRange |-> lineRange, body |-> body2]

\* translateNote
translateNote(mr, note, id, commentType) ==
    [Id |-> id,
     Content |-> prepareNoteBody(mr, note, id),
     PublishedDate |-> note.CreatedAt,
     LastUpdatedDate |-> note.UpdatedAt,
     CommentType |-> commentType,
     ParentCommentId |-> id - 1]

\* CommentTypeOf deciding by the note itself instead of the first note.
CommentTypeOfNote(firstNote, note) ==
    IF note.Position # Nil /\ Deref(note.Position).NewPath # ""
    THEN "codeChange" ELSE "text"

\* The comment type of main.go:209-213: decided by the first note.
CommentTypeOf(firstNote, note) ==
    IF firstNote.Position # Nil /\ Deref(firstNote.Position).NewPath # ""
    THEN "codeChange" ELSE "text"

\* NextStatus letting a resolved note reset the status.
NextStatusLastNote(status, note) ==
    IF ~note.Resolved THEN "active" ELSE "fixed"

\* The status after a note (main.go:215-217).
NextStatus(status, note) ==
    IF ~note.Resolved THEN "active" ELSE status

\* The loop of translateDiscussion over discussion.Notes (main.go:207-220):
\* rest are the notes still to visit, id the counter, comments and status
\* the values built so far.
RECURSIVE NotesLoop(_, _, _, _, _, _)
NotesLoop(mr, firstNote, rest, id, comments, status) ==
    IF rest = <<>> THEN [comments |-> comments, status |-> status]
    ELSE LET note == Head(rest)
             commentType == CommentTypeOf(firstNote, note)
             comment == translateNote(mr, note, id, commentType)
         IN  NotesLoop(mr, firstNote, Tail(rest), id + 1, Append(comments, comment),
                       NextStatus(status, note))

\* ThreadContext taking the line of the position also when the position has
\* a line range.
ThreadContextOwnLine(firstNote) ==
    IF firstNote.Position # Nil /\ Deref(firstNote.Position).NewPath # ""
    THEN LET pos == Deref(firstNote.Position)
         IN  Ptr([FilePath |-> <<"/", pos.NewPath>>,
                  RightFileStart |-> [Line |-> pos.NewLine],
                  RightFileEnd |-> [Line |-> pos.NewLine]])
    ELSE Nil

\* The thread context translateDiscussion derives from the first note
\* (main.go:196-206).
ThreadContext(firstNote) ==
    IF firstNote.Position # Nil /\ Deref(firstNote.Position).NewPath # ""
    THEN LET pos == Deref(firstNote.Position)
             line == IF pos.LineRange # Nil
                     THEN Deref(pos.LineRange).StartRange.NewLine
                     ELSE pos.NewLine
         IN  Ptr([FilePath |-> <<"/", pos.NewPath>>,
                  RightFileStart |-> [Line |-> line],
                  RightFileEnd |-> [Line |-> line]])
    ELSE Nil

\* SplitThread leaving the first comment in the follow-up payload.
SplitThreadKeepFirst(thread, comments) ==
    IF Len(comments) = 1 THEN <<Ptr([thread EXCEPT !.Comments = comments]), Nil>>
    ELSE <<Ptr([thread EXCEPT !.Comments = <<comments[1]>>]),
           Ptr([thread EXCEPT !.Comments = comments, !.ThreadContext = Nil])>>

\* The end of translateDiscussion (main.go:222-234): the thread with all
\* its comments, or the creating thread and the one with the replies.
SplitThread(thread, comments) ==
    IF Len(comments) = 1 THEN <<Ptr([thread EXCEPT !.Comments = comments]), Nil>>
    ELSE <<Ptr([thread EXCEPT !.Comments = <<comments[1]>>]),
           Ptr([thread EXCEPT !.Comments = Tail(comments), !.ThreadContext = Nil])>>

\* translateDiscussion for a discussion that is not skipped (main.go:191-234).
Threads(mr, discussion) ==
    LET firstNote == discussion[1]
        loop == NotesLoop(mr, firstNote, discussion, 1, <<>>, "fixed")
        thread == [PullRequestThreadContext |-> Nil,
                   PublishedDate |-> firstNote.CreatedAt,
                   ThreadContext |-> ThreadContext(firstNote),
                   Status |-> loop.status,
                   Comments |-> <<>>,
                   Id |-> Nil]
    IN  SplitThread(thread, loop.comments)

\* translateDiscussion testing the last note instead of the first.
translateDiscussionLastNote(mr, discussion) ==
    IF discussion[Len(discussion)].System THEN <<Nil, Nil>> ELSE Threads(mr, discussion)

\* translateDiscussion: the pair (threadInit, fullThread), each Nil or a
\* pointer to a thread payload.  discussion is the sequence of its notes.
translateDiscussion(mr, discussion) ==
    IF discussion[1].System THEN <<Nil, Nil>> ELSE Threads(mr, discussion)

\* ---------------------------------------------------------- merge requests
\* gitlab.MergeRequest with the fields the program reads.
MergeRequest(iid, state, wip, sha) ==
    [IID |-> iid, State |-> state, WorkInProgress |-> wip, MergeCommitSHA |-> sha,
     Title |-> "Foo", Description |-> "open merge request description",
     SourceBranch |-> "develop", TargetBranch |-> "master",
     WebURL |-> <<"https://gitlab.com/gitlab-examples/php/-/merge_requests/", iid>>,
     Author |-> Author, CreatedAt |-> "createdAt"]

\* The states a merge request of the source platform can be in.
MRStates == {"opened", "closed", "locked", "merged"}

\* preparePullRequestDescription
preparePullRequestDescription(mr) ==
    [link |-> mr.WebURL, author |-> mr.Author, body |-> mr.Description]

\* The payload translatePullRequest builds (main.go:281-304).
GitPullRequest(mr, repo) ==
    [CreatedBy |-> [DisplayName |-> mr.Author.Username, Descriptor |-> mr.Author.Name],
     CreationDate |-> mr.CreatedAt,
     IsDraft |-> mr.WorkInProgress,
     Repository |-> repo,
     LastMergeCommit |-> IF mr.MergeCommitSHA # ""
                         THEN Ptr([CommitId |-> mr.MergeCommitSHA])
                         ELSE Nil,
     Status |-> "active",
     Title |-> mr.Title,
     SourceRefName |-> <<"refs/heads/", mr.SourceBranch>>,
     TargetRefName |-> <<"refs/heads/", mr.TargetBranch>>,
     Description |-> preparePullRequestDescription(mr)]

\* translatePullRequest skipping closed merge requests only.
translatePullRequestClosedOnly(mr, repo) ==
    IF mr.State = "closed" THEN Nil
    ELSE Ptr(GitPullRequest(mr, repo))

\* translatePullRequest: Nil or a pointer to the pull-request payload.
translatePullRequest(mr, repo) ==
    IF mr.State = "closed" \/ mr.State = "merged" THEN Nil
    ELSE Ptr(GitPullRequest(mr, repo))

\* ================================================================ state
VARIABLES
    recreateRepository,  \* flag --recreate-repo
    archiveProjects,     \* flag --archive-projects
    configFile,          \* configFile.Projects, the configured projects
    i,                   \* index in configFile.Projects of the project in work
    pc,                  \* the API call the program issues next
    azdoRepository,      \* importRepository: the repository CreateRepository made
    repository,          \* processProject: what importRepository returned
    gitlabMROptions,     \* importMergeRequests: the page to request
    mergeRequests,       \* importMergeRequests: the page last fetched
    mrResponse,          \* importMergeRequests: the response of that fetch
    mrIdx,               \* importMergeRequests: position of the range loop
    pullRequest,         \* importMergeRequest: the created pull request
    discussionOptions,   \* importComments: the page to request
    discussions,         \* importComments: the page last fetched
    discResponse,        \* importComments: the response of that fetch
    discIdx,             \* importComments: position of the range loop
    fullThread,          \* importCommentThread: the follow-up payload
    createdThread,       \* importCommentThread: the thread CreateThread made
    step,                \* the function the last step ran
    item,                \* the merge request or discussion it worked on
    call,                \* the API call the last step issued, with its result
    attempted,           \* the projects processProject was called for, in order
    aborted,             \* the projects that met a per-project error
    mrPages,             \* fetches of the running merge-request loop
    discPages,           \* fetches of the running discussion loop
    gitLog,              \* the projects a GIT: line was logged for
    arg,                 \* translator runs: the function applied and its input
    ret                  \* translator runs: what it returned

mrLoop == <<gitlabMROptions, mergeRequests, mrResponse, mrIdx, pullRequest>>
discLoop == <<discussionOptions, discussions, discResponse, discIdx, fullThread, createdThread>>
control == <<i, pc, azdoRepository, repository, mrLoop, discLoop>>
flags == <<recreateRepository, archiveProjects, configFile>>
history == <<attempted, aborted, mrPages, discPages, gitLog>>
translator == <<arg, ret>>
vars == <<flags, control, step, item, call, history, translator>>

\* The project type of main.go:36-40; its GitlabID is its place in the file.
Project(id, migrate) == [GitlabID |-> id, AzdoProject |-> "my-project", MigrateMRs |-> migrate]

Configs ==
    UNION {{[k \in 1..n |-> Project(k, m[k])] : m \in [1..n -> BOOLEAN]} : n \in 1..MaxProjects}

project == configFile[i]

\* The statuses of an import request (git.GitAsyncOperationStatusValues).
Statuses == {"queued", "inProgress", "completed", "failed", "abandoned"}

\* What GetImportRequest can return: a request with a status or none, with
\* or without an error.
PollResults ==
    [currentRequest : {Nil} \cup {Ptr([Status |-> st]) : st \in Statuses}, err : BOOLEAN]

\* The merge requests of the orchestrated runs: one per state that
\* translatePullRequest tells apart, numbered by their place in the listing.
RunMRStates == {"opened", "closed", "merged"}
MRPage(page, states) ==
    [k \in 1..Len(states) |->
        MergeRequest((page - 1) * MaxItems + k, states[k], FALSE, "")]
MRPages(page) == {MRPage(page, states) : states \in SeqsUpTo(RunMRStates, MaxItems)}

\* The discussions of the orchestrated runs: one or two notes, the first a
\* system note or not.
RunDiscussion(page, k, system, n) ==
    [j \in 1..n |-> Note(<<page, k, j>>, system /\ j = 1, FALSE, Nil, <<CHAR>>)]
RunShapes == BOOLEAN \X {1, 2}
DiscPage(page, shapes) ==
    [k \in 1..Len(shapes) |-> RunDiscussion(page, k, shapes[k][1], shapes[k][2])]
DiscPages(page) == {DiscPage(page, shapes) : shapes \in SeqsUpTo(RunShapes, MaxItems)}

\* The responses of a listing of page `page`: without an error the items and
\* a response that names the page and the next one (0 when there is none);
\* with an error no items and a response without page numbers, or none.
Listings(page, pages) ==
    {[items |-> p, response |-> Ptr([CurrentPage |-> page, NextPage |-> n]), err |-> FALSE] :
        p \in pages, n \in {0} \cup {m \in {page + 1} : m <= MaxPage}}
    \cup {[items |-> <<>>, response |-> r, err |-> TRUE] :
        r \in {Nil, Ptr([CurrentPage |-> 0, NextPage |-> 0])}}

Call(op, result) == Ptr([op |-> op, project |-> i, result |-> result])

Init ==
    /\ recreateRepository \in BOOLEAN
    /\ archiveProjects \in BOOLEAN
    /\ configFile \in Configs
    /\ i = 1
    /\ pc = "GetProject"
    /\ azdoRepository = Nil
    /\ repository = Nil
    /\ gitlabMROptions = 0
    /\ mergeRequests = <<>>
    /\ mrResponse = Nil
    /\ mrIdx = 0
    /\ pullRequest = Nil
    /\ discussionOptions = 0
    /\ discussions = <<>>
    /\ discResponse = Nil
    /\ discIdx = 0
    /\ fullThread = Nil
    /\ createdThread = Nil
    /\ step = "main"
    /\ item = Nil
    /\ call = Nil
    /\ attempted = <<>>
    /\ gitLog = {}
    /\ aborted = {}
    /\ mrPages = <<>>
    /\ discPages = <<>>
    /\ arg = Nil
    /\ ret = Nil

\* ------------------------------------------------------ where control goes
\* Each of these gives every control variable its next value.  The locals
\* of a function that has returned are cleared.

NoDiscLoop ==
    /\ discussionOptions' = 0
    /\ discussions' = <<>>
    /\ discResponse' = Nil
    /\ discIdx' = 0
    /\ fullThread' = Nil
    /\ createdThread' = Nil

NoMRLoop ==
    /\ gitlabMROptions' = 0
    /\ mergeRequests' = <<>>
    /\ mrResponse' = Nil
    /\ mrIdx' = 0
    /\ pullRequest' = Nil
    /\ NoDiscLoop

\* processProject returns: the loop of main (main.go:52-55) takes the next
\* project, or main ends.
Return ==
    /\ i' = i + 1
    /\ pc' = IF i + 1 > Len(configFile) THEN "done" ELSE "GetProject"
    /\ azdoRepository' = Nil
    /\ repository' = Nil
    /\ NoMRLoop

\* A nil pointer is dereferenced: the process dies where it stands.
Panic ==
    /\ pc' = "panic"
    /\ UNCHANGED <<i, azdoRepository, repository, mrLoop, discLoop>>

\* AfterMergeRequests archiving whatever the archive flag says.
AfterMergeRequestsAlwaysArchives(repo) ==
    /\ pc' = "ArchiveProject"
    /\ repository' = repo
    /\ azdoRepository' = Nil
    /\ UNCHANGED i
    /\ NoMRLoop

\* processProject after importMergeRequests (main.go:75-81).
AfterMergeRequests(repo) ==
    IF archiveProjects
    THEN /\ pc' = "ArchiveProject"
         /\ repository' = repo
         /\ azdoRepository' = Nil
         /\ UNCHANGED i
         /\ NoMRLoop
    ELSE Return

\* MigrateAndArchive migrating the merge requests whatever the project says.
MigrateAlways(repo) ==
    /\ pc' = "ListProjectMergeRequests"
    /\ repository' = repo
    /\ azdoRepository' = Nil
    /\ gitlabMROptions' = 1
    /\ UNCHANGED <<i, mergeRequests, mrResponse, mrIdx, pullRequest, discLoop>>

\* processProject with the repository importRepository returned
\* (main.go:71-81).
MigrateAndArchive(repo) ==
    IF project.MigrateMRs
    THEN /\ pc' = "ListProjectMergeRequests"
         /\ repository' = repo
         /\ azdoRepository' = Nil
         /\ gitlabMROptions' = 1
         /\ UNCHANGED <<i, mergeRequests, mrResponse, mrIdx, pullRequest, discLoop>>
    ELSE AfterMergeRequests(repo)

\* processProject after importRepository returned repo (main.go:66-81).
AfterImportRepository(repo) ==
    IF repo = Nil THEN Return ELSE MigrateAndArchive(repo)

\* HasNextPage going on also when the two page numbers are equal.
HasNextPageOrEqual(response) ==
    response.NextPage >= response.CurrentPage

\* The loop condition of both fetch loops (main.go:102, 144).
HasNextPage(response) ==
    response.NextPage > response.CurrentPage

\* importMergeRequests after item k of the page `items` fetched as `page`
\* with response `resp` (main.go:99-107); k = 0 right after the fetch.
MRLoopFrom(k, items, resp, page) ==
    IF k < Len(items)
    THEN /\ pc' = "importMergeRequest"
         /\ gitlabMROptions' = page
         /\ mergeRequests' = items
         /\ mrResponse' = resp
         /\ mrIdx' = k + 1
         /\ pullRequest' = Nil
         /\ NoDiscLoop
         /\ UNCHANGED <<i, azdoRepository, repository>>
    ELSE IF resp = Nil THEN Panic
    ELSE IF HasNextPage(Deref(resp))
    THEN /\ pc' = "ListProjectMergeRequests"
         /\ gitlabMROptions' = page + 1
         /\ mergeRequests' = <<>>
         /\ mrResponse' = Nil
         /\ mrIdx' = 0
         /\ pullRequest' = Nil
         /\ NoDiscLoop
         /\ UNCHANGED <<i, azdoRepository, repository>>
    ELSE AfterMergeRequests(repository)

\* importComments after item k of the page `items` fetched as `page` with
\* response `resp` (main.go:141-149); when the loop ends importMergeRequest
\* returns into the loop of importMergeRequests.
DiscLoopFrom(k, items, resp, page) ==
    IF k < Len(items)
    THEN /\ pc' = "importCommentThread"
         /\ discussionOptions' = page
         /\ discussions' = items
         /\ discResponse' = resp
         /\ discIdx' = k + 1
         /\ fullThread' = Nil
         /\ createdThread' = Nil
         /\ UNCHANGED <<i, azdoRepository, repository, mrLoop>>
    ELSE IF resp = Nil THEN Panic
    ELSE IF HasNextPage(Deref(resp))
    THEN /\ pc' = "ListMergeRequestDiscussions"
         /\ discussionOptions' = page + 1
         /\ discussions' = <<>>
         /\ discResponse' = Nil
         /\ discIdx' = 0
         /\ fullThread' = Nil
         /\ createdThread' = Nil
         /\ UNCHANGED <<i, azdoRepository, repository, mrLoop>>
    ELSE MRLoopFrom(mrIdx, mergeRequests, mrResponse, gitlabMROptions)

\* ------------------------------------------------------------------ steps
\* A step is the code from one API call to the next.

\* processProject up to its first call (main.go:58-63).
GetProject ==
    /\ pc = "GetProject"
    /\ \E err \in BOOLEAN :
        /\ call' = Call("GetProject", [err |-> err])
        /\ aborted' = IF err THEN aborted \cup {i} ELSE aborted
        /\ IF err THEN Return
           ELSE /\ pc' = IF recreateRepository THEN "GetRepository" ELSE "CreateRepository"
                /\ UNCHANGED <<i, azdoRepository, repository, mrLoop, discLoop>>
    /\ step' = "processProject"
    /\ item' = Nil
    /\ attempted' = Append(attempted, i)
    /\ gitLog' = gitLog
    /\ mrPages' = <<>>
    /\ discPages' = <<>>
    /\ UNCHANGED <<flags, translator>>

\* GetRepository going on to the deletion whether or not it found one.
GetRepositoryAlwaysDeletes ==
    /\ pc = "GetRepository"
    /\ \E repo \in {Nil, Ptr([Id |-> "previous"])} :
        /\ call' = Call("GetRepository", [repo |-> repo])
        /\ pc' = "DeleteRepository"
    /\ step' = "reinitAzdoRepository"
    /\ item' = Nil
    /\ UNCHANGED <<i, azdoRepository, repository, mrLoop, discLoop>>
    /\ UNCHANGED <<flags, history, translator>>

\* reinitAzdoRepository, the lookup (main.go:387-393); its error is dropped.
GetRepository ==
    /\ pc = "GetRepository"
    /\ \E repo \in {Nil, Ptr([Id |-> "previous"])} :
        /\ call' = Call("GetRepository", [repo |-> repo])
        /\ pc' = IF repo # Nil THEN "DeleteRepository" ELSE "CreateRepository"
    /\ step' = "reinitAzdoRepository"
    /\ item' = Nil
    /\ UNCHANGED <<i, azdoRepository, repository, mrLoop, discLoop>>
    /\ UNCHANGED <<flags, history, translator>>

\* reinitAzdoRepository, the deletion (main.go:394-400).
DeleteRepository ==
    /\ pc = "DeleteRepository"
    /\ \E err \in BOOLEAN :
        /\ call' = Call("DeleteRepository", [err |-> err])
        /\ aborted' = IF err THEN aborted \cup {i} ELSE aborted
        /\ IF err THEN Return
           ELSE /\ pc' = "CreateRepository"
                /\ UNCHANGED <<i, azdoRepository, repository, mrLoop, discLoop>>
    /\ step' = "reinitAzdoRepository"
    /\ item' = Nil
    /\ UNCHANGED <<flags, attempted, mrPages, discPages, gitLog, translator>>

\* reinitAzdoRepository, the creation, and importRepository up to the GIT:
\* line (main.go:404-414, 320-325).
CreateRepository ==
    /\ pc = "CreateRepository"
    /\ \E err \in BOOLEAN :
        /\ call' = Call("CreateRepository", [err |-> err])
        /\ aborted' = IF err THEN aborted \cup {i} ELSE aborted
        /\ gitLog' = IF err THEN gitLog ELSE gitLog \cup {project.GitlabID}
        /\ IF err THEN Return
           ELSE /\ pc' = "CreateImportRequest"
                /\ azdoRepository' = Ptr([Id |-> i, Name |-> <<"path", i>>])
                /\ UNCHANGED <<i, repository, mrLoop, discLoop>>
    /\ step' = "reinitAzdoRepository"
    /\ item' = Nil
    /\ UNCHANGED <<flags, attempted, mrPages, discPages, translator>>

\* createImportRequest and its caller (main.go:327-331, 358-384).
CreateImportRequest ==
    /\ pc = "CreateImportRequest"
    /\ \E err \in BOOLEAN :
        /\ call' = Call("CreateImportRequest", [err |-> err])
        /\ aborted' = IF err THEN aborted \cup {i} ELSE aborted
        /\ IF err THEN Return
           ELSE /\ pc' = "GetImportRequest"
                /\ UNCHANGED <<i, azdoRepository, repository, mrLoop, discLoop>>
    /\ step' = "createImportRequest"
    /\ item' = Nil
    /\ UNCHANGED <<flags, attempted, mrPages, discPages, gitLog, translator>>

\* PollOutcome polling again when there is neither a result nor an error.
PollOutcomeNilRetries(r) ==
    IF r.currentRequest = Nil /\ ~r.err THEN "retry"
    ELSE IF r.currentRequest = Nil THEN "panic"
    ELSE IF Deref(r.currentRequest).Status = "completed" THEN "finished"
    ELSE IF Deref(r.currentRequest).Status = "abandoned" THEN "abandoned"
    ELSE IF Deref(r.currentRequest).Status = "failed" THEN "failed"
    ELSE "retry"

\* One round of the loop of importRepository (main.go:339-354): what the
\* round does with the result r of GetImportRequest.
PollOutcome(r) ==
    IF r.currentRequest = Nil /\ ~r.err THEN "finished"
    ELSE IF r.currentRequest = Nil THEN "panic"
    ELSE IF Deref(r.currentRequest).Status = "completed" THEN "finished"
    ELSE IF Deref(r.currentRequest).Status = "abandoned" THEN "abandoned"
    ELSE IF Deref(r.currentRequest).Status = "failed" THEN "failed"
    ELSE "retry"

\* The poll loop of importRepository, one round (main.go:338-355).
GetImportRequest ==
    /\ pc = "GetImportRequest"
    /\ \E r \in PollResults :
        /\ call' = Call("GetImportRequest", r)
        /\ LET outcome == PollOutcome(r)
           IN  /\ aborted' = IF outcome \in {"abandoned", "failed"}
                             THEN aborted \cup {i} ELSE aborted
               /\ IF outcome = "finished" THEN AfterImportRepository(azdoRepository)
                  ELSE IF outcome = "panic" THEN Panic
                  ELSE IF outcome \in {"abandoned", "failed"} THEN AfterImportRepository(Nil)
                  ELSE UNCHANGED control
    /\ step' = "importRepository"
    /\ item' = Nil
    /\ UNCHANGED <<flags, attempted, mrPages, discPages, gitLog, translator>>

\* importMergeRequests, one fetch (main.go:95-98).
ListProjectMergeRequests ==
    /\ pc = "ListProjectMergeRequests"
    /\ \E l \in Listings(gitlabMROptions, MRPages(gitlabMROptions)) :
        /\ call' = Call("ListProjectMergeRequests", [Page |-> gitlabMROptions, listing |-> l])
        /\ mrPages' = Append(mrPages, [Page |-> gitlabMROptions, response |-> l.response])
        /\ MRLoopFrom(0, l.items, l.response, gitlabMROptions)
    /\ step' = "importMergeRequests"
    /\ item' = Nil
    /\ UNCHANGED <<flags, attempted, aborted, discPages, gitLog, translator>>

\* importMergeRequest (main.go:110-128).
importMergeRequest ==
    /\ pc = "importMergeRequest"
    /\ LET mr == mergeRequests[mrIdx]
           azdoRequest == translatePullRequest(mr, repository)
       IN  /\ item' = Ptr(mr)
           /\ IF azdoRequest = Nil
              THEN /\ call' = Nil
                   /\ MRLoopFrom(mrIdx, mergeRequests, mrResponse, gitlabMROptions)
              ELSE \E err \in BOOLEAN :
                   /\ call' = Call("CreatePullRequest",
                                   [GitPullRequestToCreate |-> azdoRequest, err |-> err])
                   /\ IF err
                      THEN MRLoopFrom(mrIdx, mergeRequests, mrResponse, gitlabMROptions)
                      ELSE /\ pc' = "ListMergeRequestDiscussions"
                           /\ pullRequest' = Ptr([PullRequestId |-> mr.IID,
                                                  Repository |-> repository])
                           /\ discussionOptions' = 1
                           /\ UNCHANGED <<i, azdoRepository, repository, gitlabMROptions,
                                          mergeRequests, mrResponse, mrIdx, discussions,
                                          discResponse, discIdx, fullThread, createdThread>>
    /\ step' = "importMergeRequest"
    /\ discPages' = <<>>
    /\ UNCHANGED <<flags, attempted, aborted, mrPages, gitLog, translator>>

\* importComments, one fetch (main.go:137-140).
ListMergeRequestDiscussions ==
    /\ pc = "ListMergeRequestDiscussions"
    /\ \E l \in Listings(discussionOptions, DiscPages(discussionOptions)) :
        /\ call' = Call("ListMergeRequestDiscussions",
                        [IID |-> mergeRequests[mrIdx].IID, Page |-> discussionOptions,
                         listing |-> l])
        /\ discPages' = Append(discPages, [Page |-> discussionOptions, response |-> l.response])
        /\ DiscLoopFrom(0, l.items, l.response, discussionOptions)
    /\ step' = "importComments"
    /\ item' = Ptr(mergeRequests[mrIdx])
    /\ UNCHANGED <<flags, attempted, aborted, mrPages, gitLog, translator>>

\* importCommentThread going on to the update also when CreateThread failed.
importCommentThreadIgnoringError ==
    /\ pc = "importCommentThread"
    /\ LET discussion == discussions[discIdx]
           threads == translateDiscussion(mergeRequests[mrIdx], discussion)
           threadInit == threads[1]
       IN  /\ item' = Ptr(discussion)
           /\ IF threadInit = Nil
              THEN /\ call' = Nil
                   /\ DiscLoopFrom(discIdx, discussions, discResponse, discussionOptions)
              ELSE \E err \in BOOLEAN :
                   /\ call' = Call("CreateThread",
                                   [CommentThread |-> threadInit, err |-> err])
                   /\ IF threads[2] # Nil
                      THEN /\ pc' = "UpdateThread"
                           /\ createdThread' = Ptr([Id |-> discussion[1].ID])
                           /\ fullThread' = Ptr([Deref(threads[2]) EXCEPT
                                                    !.Id = Ptr(discussion[1].ID)])
                           /\ UNCHANGED <<i, azdoRepository, repository, mrLoop,
                                          discussionOptions, discussions, discResponse,
                                          discIdx>>
                      ELSE DiscLoopFrom(discIdx, discussions, discResponse,
                                        discussionOptions)
    /\ step' = "importCommentThread"
    /\ UNCHANGED <<flags, history, translator>>

\* importCommentThread up to CreateThread and its result (main.go:152-168).
importCommentThread ==
    /\ pc = "importCommentThread"
    /\ LET discussion == discussions[discIdx]
           threads == translateDiscussion(mergeRequests[mrIdx], discussion)
           threadInit == threads[1]
       IN  /\ item' = Ptr(discussion)
           /\ IF threadInit = Nil
              THEN /\ call' = Nil
                   /\ DiscLoopFrom(discIdx, discussions, discResponse, discussionOptions)
              ELSE \E err \in BOOLEAN :
                   /\ call' = Call("CreateThread",
                                   [CommentThread |-> threadInit, err |-> err])
                   /\ IF ~err /\ threads[2] # Nil
                      THEN /\ pc' = "UpdateThread"
                           /\ createdThread' = Ptr([Id |-> discussion[1].ID])
                           /\ fullThread' = Ptr([Deref(threads[2]) EXCEPT
                                                    !.Id = Ptr(discussion[1].ID)])
                           /\ UNCHANGED <<i, azdoRepository, repository, mrLoop,
                                          discussionOptions, discussions, discResponse,
                                          discIdx>>
                      ELSE DiscLoopFrom(discIdx, discussions, discResponse,
                                        discussionOptions)
    /\ step' = "importCommentThread"
    /\ UNCHANGED <<flags, history, translator>>

\* UpdateThread ending the discussions of the merge request when it fails.
UpdateThreadStopsOnError ==
    /\ pc = "UpdateThread"
    /\ \E err \in BOOLEAN :
        /\ call' = Call("UpdateThread",
                        [ThreadId |-> Deref(createdThread).Id,
                         CommentThread |-> fullThread, err |-> err])
        /\ IF err
           THEN MRLoopFrom(mrIdx, mergeRequests, mrResponse, gitlabMROptions)
           ELSE DiscLoopFrom(discIdx, discussions, discResponse, discussionOptions)
    /\ step' = "importCommentThread"
    /\ item' = Ptr(discussions[discIdx])
    /\ UNCHANGED <<flags, history, translator>>

\* importCommentThread, the update (main.go:168-182).
UpdateThread ==
    /\ pc = "UpdateThread"
    /\ \E err \in BOOLEAN :
        /\ call' = Call("UpdateThread",
                        [ThreadId |-> Deref(createdThread).Id,
                         CommentThread |-> fullThread, err |-> err])
        /\ DiscLoopFrom(discIdx, discussions, discResponse, discussionOptions)
    /\ step' = "importCommentThread"
    /\ item' = Ptr(discussions[discIdx])
    /\ UNCHANGED <<flags, history, translator>>

\* processProject, the archiving (main.go:75-81).
ArchiveProject ==
    /\ pc = "ArchiveProject"
    /\ \E err \in BOOLEAN :
        /\ call' = Call("ArchiveProject", [err |-> err])
        /\ Return
    /\ step' = "processProject"
    /\ item' = Nil
    /\ UNCHANGED <<flags, history, translator>>

Next ==
    \/ GetProject
    \/ GetRepository
    \/ DeleteRepository
    \/ CreateRepository
    \/ CreateImportRequest
    \/ GetImportRequest
    \/ ListProjectMergeRequests
    \/ importMergeRequest
    \/ ListMergeRequestDiscussions
    \/ importCommentThread
    \/ UpdateThread
    \/ ArchiveProject

Spec == Init /\ [][Next]_vars

\* The run under the conditions a claim about its end lays down.  The
\* program runs on while it can (main.go:52-55 has no wait but the sleep of
\* the poll loop), and a job that is polled again and again reports a
\* terminal status at some poll.  A listing has MaxPage pages at most, so
\* that every fetch loop meets a page with no page after it.
ReportsTerminalStatus ==
    /\ GetImportRequest
    /\ Deref(call').result.currentRequest # Nil
    /\ Deref(Deref(call').result.currentRequest).Status \in {"completed", "abandoned", "failed"}

SpecLive == Init /\ [][Next]_vars /\ WF_vars(Next) /\ SF_vars(ReportsTerminalStatus)

\* ======================================================= translator runs
\* The translator functions applied to inputs of their own, wider than the
\* ones the orchestrated runs feed them.

\* The body of the suggestion note of the repository's tests: a suggestion
\* block with a range qualifier.
SuggestionBody == <<SUG, COLON, CHAR, NL, CHAR>>

\* Discussions of 1..MaxNotes notes; note k has ID k.  The first note, whose
\* position the program reads, takes every position; a later note has no
\* position or the one with the range 1-2.
ReplyPositions == {Nil, Ptr(Position("README.md", 2, Ptr(LineRange(1, 2))))}
DiscussionNotes(k) ==
    {Note(k, system, resolved, position, SuggestionBody) :
        system \in BOOLEAN, resolved \in BOOLEAN,
        position \in IF k = 1 THEN Positions ELSE ReplyPositions}
RECURSIVE DiscussionsOfLen(_)
DiscussionsOfLen(n) ==
    IF n = 0 THEN {<<>>}
    ELSE {Append(d, note) : d \in DiscussionsOfLen(n - 1), note \in DiscussionNotes(n)}
Discussions == UNION {DiscussionsOfLen(n) : n \in 1..MaxNotes}

SimpleMergeRequest == MergeRequest(1, "opened", FALSE, "")

DiscussionArgs ==
    {[fn |-> "translateDiscussion", mr |-> SimpleMergeRequest, discussion |-> d] :
        d \in Discussions}
NoteArgs ==
    {[fn |-> "prepareNoteBody", mr |-> SimpleMergeRequest,
      note |-> Note(0, FALSE, FALSE, position, body), id |-> id] :
        position \in Positions, body \in Bodies, id \in 1..MaxNotes}
PullRequestArgs ==
    {[fn |-> "translatePullRequest", mr |-> MergeRequest(1, state, wip, sha),
      repository |-> Ptr([Id |-> 1, Name |-> "test-repository"])] :
        state \in MRStates, wip \in BOOLEAN,
        sha \in {"", "e83c5163316f89bfbde7d9ab23ca2e25604af290"}}

InitT ==
    /\ recreateRepository = FALSE
    /\ archiveProjects = FALSE
    /\ configFile = <<Project(1, FALSE)>>
    /\ i = 1
    /\ pc = "translator"
    /\ azdoRepository = Nil
    /\ repository = Nil
    /\ gitlabMROptions = 0
    /\ mergeRequests = <<>>
    /\ mrResponse = Nil
    /\ mrIdx = 0
    /\ pullRequest = Nil
    /\ discussionOptions = 0
    /\ discussions = <<>>
    /\ discResponse = Nil
    /\ discIdx = 0
    /\ fullThread = Nil
    /\ createdThread = Nil
    /\ step = "main"
    /\ item = Nil
    /\ call = Nil
    /\ attempted = <<>>
    /\ gitLog = {}
    /\ aborted = {}
    /\ mrPages = <<>>
    /\ discPages = <<>>
    /\ \/ \E a \in DiscussionArgs : arg = Ptr(a)
       \/ \E a \in NoteArgs : arg = Ptr(a)
       \/ \E a \in PullRequestArgs : arg = Ptr(a)
    /\ ret = Nil

RunTranslateDiscussion ==
    /\ ret = Nil
    /\ Deref(arg).fn = "translateDiscussion"
    /\ ret' = Ptr(translateDiscussion(Deref(arg).mr, Deref(arg).discussion))
    /\ UNCHANGED <<flags, control, step, item, call, history, arg>>

RunPrepareNoteBody ==
    /\ ret = Nil
    /\ Deref(arg).fn = "prepareNoteBody"
    /\ ret' = Ptr(prepareNoteBody(Deref(arg).mr, Deref(arg).note, Deref(arg).id))
    /\ UNCHANGED <<flags, control, step, item, call, history, arg>>

RunTranslatePullRequest ==
    /\ ret = Nil
    /\ Deref(arg).fn = "translatePullRequest"
    /\ ret' = Ptr(translatePullRequest(Deref(arg).mr, Deref(arg).repository))
    /\ UNCHANGED <<flags, control, step, item, call, history, arg>>

NextT ==
    \/ RunTranslateDiscussion
    \/ RunPrepareNoteBody
    \/ RunTranslatePullRequest

SpecT == InitT /\ [][NextT]_vars

\* ================================================================ claims
\* The result of the last step's call, when it issued one.
Issued(op) == call # Nil /\ Deref(call).op = op
Result == Deref(call).result

\* ------------------------------------------------------------------- C1
SkippedState(mr) == mr.State = "closed" \/ mr.State = "merged"

\* C1: for a merge request that is closed or merged translatePullRequest
\* yields no payload, and importMergeRequest then issues no
\* CreatePullRequest call and fetches no discussions for it; for a merge
\* request in another state a payload is produced (and sent with
\* CreatePullRequest).  Discussions are only ever fetched for a merge
\* request that is neither closed nor merged.
C1_ClosedOrMergedSkipped ==
    /\ step = "importMergeRequest" =>
         LET mr == Deref(item)
         IN  IF SkippedState(mr)
             THEN /\ translatePullRequest(mr, Nil) = Nil
                  /\ call = Nil
                  /\ pc # "ListMergeRequestDiscussions"
                  /\ pullRequest = Nil
             ELSE /\ translatePullRequest(mr, Nil) # Nil
                  /\ Issued("CreatePullRequest")
                  /\ Result.GitPullRequestToCreate # Nil
                  /\ Deref(Result.GitPullRequestToCreate).Title = mr.Title
    /\ Issued("ListMergeRequestDiscussions") => ~SkippedState(Deref(item))

\* Witness of C1: a merged merge request was just skipped without a call,
\* and the loop stands at the next merge request of the page.
C1_Witness ==
    /\ step = "importMergeRequest"
    /\ Deref(item).State = "merged"
    /\ call = Nil
    /\ pc = "importMergeRequest"

\* ------------------------------------------------------------------- C2
\* C2: for a discussion whose first note is a system note
\* translateDiscussion yields neither payload, whatever follows the first
\* note, and importCommentThread issues neither CreateThread nor
\* UpdateThread for it.
C2_SystemDiscussionSkipped ==
    (step = "importCommentThread" /\ Deref(item)[1].System) =>
        /\ translateDiscussion(SimpleMergeRequest, Deref(item)) = <<Nil, Nil>>
        /\ call = Nil
        /\ pc # "UpdateThread"
        /\ fullThread = Nil
        /\ createdThread = Nil

\* Witness of C2: a discussion of two notes whose first is a system note was
\* just skipped without a call.
C2_Witness ==
    /\ step = "importCommentThread"
    /\ Len(Deref(item)) = 2
    /\ Deref(item)[1].System
    /\ ~Deref(item)[2].System
    /\ call = Nil

\* ------------------------------------------------------------------- C3
\* A translator run of function fn has returned.
Returned(fn) == ret # Nil /\ Deref(arg).fn = fn
Input == Deref(arg)
Output == Deref(ret)

\* All the comments of the payloads translateDiscussion returned, in order.
AllComments(threads) ==
    (IF threads[1] = Nil THEN <<>> ELSE Deref(threads[1]).Comments)
        \o (IF threads[2] = Nil THEN <<>> ELSE Deref(threads[2]).Comments)

\* Comment c is the comment for note k of discussion d: it links to that
\* note, carries its dates, and has id k and parent id k - 1.
CommentForNote(c, d, k) ==
    /\ c.Content.link = <<SimpleMergeRequest.WebURL, "/diffs#note_", d[k].ID>>
    /\ c.PublishedDate = d[k].CreatedAt
    /\ c.Id = k
    /\ c.ParentCommentId = k - 1

\* C3: for a discussion of N >= 1 notes whose first note is no system note,
\* translateDiscussion yields a creating payload with exactly the comment
\* for note 1, and a follow-up payload exactly when N > 1, which holds the
\* comments for notes 2..N in order; the comment for note k has id k and
\* parent id k - 1.
C3_InitAndFullComments ==
    (Returned("translateDiscussion") /\ ~Input.discussion[1].System) =>
        LET d == Input.discussion
            N == Len(d)
            init == Output[1]
            full == Output[2]
        IN  /\ init # Nil
            /\ Len(Deref(init).Comments) = 1
            /\ CommentForNote(Deref(init).Comments[1], d, 1)
            /\ (full # Nil) <=> (N > 1)
            /\ full # Nil =>
                 /\ Len(Deref(full).Comments) = N - 1
                 /\ \A j \in 1..(N - 1) : CommentForNote(Deref(full).Comments[j], d, j + 1)

\* Witness of C3: a discussion of three notes was translated into a creating
\* payload and a follow-up payload of two comments.
C3_Witness ==
    /\ Returned("translateDiscussion")
    /\ Len(Input.discussion) = 3
    /\ Output[2] # Nil
    /\ Len(Deref(Output[2]).Comments) = 2
    /\ Deref(Output[2]).Comments[2].Id = 3

\* ------------------------------------------------------------------- C4
\* C4: in every payload translateDiscussion returns the status is "active"
\* if and only if a note of the whole discussion is unresolved, and "fixed"
\* otherwise.
C4_StatusActiveIffUnresolved ==
    Returned("translateDiscussion") =>
        LET d == Input.discussion
            expected == IF \E k \in 1..Len(d) : ~d[k].Resolved THEN "active" ELSE "fixed"
        IN  \A n \in 1..2 : Output[n] # Nil => Deref(Output[n]).Status = expected

\* Witness of C4: the creating payload is active although its only comment
\* comes from a resolved note, because a reply is unresolved.
C4_Witness ==
    /\ Returned("translateDiscussion")
    /\ Len(Input.discussion) = 2
    /\ Input.discussion[1].Resolved
    /\ ~Input.discussion[2].Resolved
    /\ Output[1] # Nil
    /\ Deref(Output[1]).Status = "active"

\* ------------------------------------------------------------------- C5
\* A note carries a file position: a position that names a file (the data
\* model's file position is a path with a line or a line range).
HasFilePosition(note) ==
    note.Position # Nil /\ Deref(note.Position).NewPath # ""

\* C5: all comments of a translated discussion have the same type, code
\* change when the first note carries a file position and text otherwise,
\* whatever the positions of the replies.
C5_UniformCommentType ==
    (Returned("translateDiscussion") /\ Output[1] # Nil) =>
        LET d == Input.discussion
            expected == IF HasFilePosition(d[1]) THEN "codeChange" ELSE "text"
            comments == AllComments(Output)
        IN  /\ Len(comments) = Len(d)
            /\ \A k \in 1..Len(comments) : comments[k].CommentType = expected

\* Witness of C5: the reply carries a file position and the first note none,
\* and the reply's comment is of type text.
C5_Witness ==
    /\ Returned("translateDiscussion")
    /\ Len(Input.discussion) = 2
    /\ ~HasFilePosition(Input.discussion[1])
    /\ HasFilePosition(Input.discussion[2])
    /\ Output[2] # Nil
    /\ Deref(Output[2]).Comments[1].CommentType = "text"

\* ------------------------------------------------------------------- C6
\* The lines of a body, without their line feeds.
RECURSIVE LinesOf(_, _)
LinesOf(body, line) ==
    IF body = <<>> THEN <<line>>
    ELSE IF Head(body) = NL THEN <<line>> \o LinesOf(Tail(body), <<>>)
    ELSE LinesOf(Tail(body), Append(line, Head(body)))

\* The places of a line where a range-qualified suggestion marker starts.
MarkersIn(line) ==
    {k \in 1..(Len(line) - 1) : line[k] = SUG /\ line[k + 1] = COLON}

\* A line with its marker and the qualifier that runs to the end of the
\* line replaced by repl.
RewriteLine(line, repl) ==
    IF MarkersIn(line) = {} THEN line
    ELSE LET k == CHOOSE m \in MarkersIn(line) : \A n \in MarkersIn(line) : m <= n
         IN  SubSeq(line, 1, k - 1) \o repl

RECURSIVE JoinLines(_)
JoinLines(lines) ==
    IF Len(lines) = 1 THEN lines[1]
    ELSE lines[1] \o <<NL>> \o JoinLines(Tail(lines))

Rewritten(body, repl) ==
    LET lines == LinesOf(body, <<>>)
    IN  JoinLines([k \in 1..Len(lines) |-> RewriteLine(lines[k], repl)])

NoQualifiedMarker(body) ==
    \A k \in 1..(Len(body) - 1) : ~(body[k] = SUG /\ body[k + 1] = COLON)

\* C6: prepareNoteBody adds the warning marker "start-end" to the
\* attribution line exactly when the note is the first of its discussion
\* (id 1) and its position has a line range whose start differs from its
\* end; then every range-qualified suggestion marker of the body becomes the
\* manual-apply warning followed by the unqualified marker, otherwise it
\* becomes the unqualified marker; in every case the rendered body holds no
\* range-qualified suggestion marker.
C6_MultilineMarkerAndSuggestions ==
    Returned("prepareNoteBody") =>
        LET note == Input.note
            ranged == /\ note.Position # Nil
                      /\ Deref(note.Position).LineRange # Nil
            range == Deref(Deref(note.Position).LineRange)
            first == Input.id = 1
            multi == first /\ ranged /\ range.StartRange.NewLine # range.EndRange.NewLine
        IN  /\ (Output.lineRange # <<>>) <=> multi
            /\ multi =>
                 /\ Output.lineRange = <<"| Multiline comment ",
                                         range.StartRange.NewLine, "-",
                                         range.EndRange.NewLine>>
                 /\ Output.body = Rewritten(note.Body, <<WARN, NL, SUG>>)
            /\ ~multi => Output.body = Rewritten(note.Body, <<SUG>>)
            /\ NoQualifiedMarker(Output.body)

\* Witness of C6: a first note on the range 1-2 whose body holds a
\* range-qualified marker got the marker 1-2 and the warning before the
\* unqualified marker.
C6_Witness ==
    /\ Returned("prepareNoteBody")
    /\ Input.id = 1
    /\ Input.note.Body = <<SUG, COLON, CHAR, NL>>
    /\ Output.lineRange = <<"| Multiline comment ", 1, "-", 2>>
    /\ Output.body = <<WARN, NL, SUG, NL>>

\* ------------------------------------------------------------------- C7
\* The handle CreateRepository returned for project p.
CreatedRepository(p) == Ptr([Id |-> p, Name |-> <<"path", p>>])

\* processProject of project p goes on with the repository importRepository
\* returned: to the merge requests if they are to be migrated, else to the
\* archiving if that is asked for, else to its end.
ContinuesAfterImport(p) ==
    IF configFile[p].MigrateMRs
    THEN /\ pc = "ListProjectMergeRequests"
         /\ i = p
         /\ gitlabMROptions = 1
         /\ repository = CreatedRepository(p)
    ELSE IF archiveProjects
    THEN /\ pc = "ArchiveProject"
         /\ i = p
         /\ repository = CreatedRepository(p)
    ELSE /\ i = p + 1
         /\ pc = IF p + 1 > Len(configFile) THEN "done" ELSE "GetProject"

\* processProject of project p has returned and the run stands at the next
\* project, or at its end after the last one.
NoFurtherStep(p) ==
    /\ i = p + 1
    /\ pc = IF p + 1 > Len(configFile) THEN "done" ELSE "GetProject"
    /\ repository = Nil

\* The status a poll reported, "none" when it returned no request.
StatusOf(r) ==
    IF r.currentRequest = Nil THEN "none" ELSE Deref(r.currentRequest).Status

\* C7: after a poll the loop of importRepository is left only on a terminal
\* status (no result and no error counting as Completed): Completed returns
\* the created repository, Abandoned and Failed return none, so that neither
\* merge requests are migrated nor the project archived; any other status
\* leads to another poll.
C7_PollUntilTerminal ==
    Issued("GetImportRequest") =>
        LET p == Deref(call).project
            status == StatusOf(Result)
        IN  /\ pc # "GetImportRequest" =>
                 \/ status \in {"completed", "abandoned", "failed"}
                 \/ Result.currentRequest = Nil /\ ~Result.err
            /\ status = "completed" => ContinuesAfterImport(p)
            /\ status \in {"abandoned", "failed"} => NoFurtherStep(p)
            /\ status \in {"queued", "inProgress"} =>
                 /\ pc = "GetImportRequest"
                 /\ i = p
                 /\ azdoRepository = CreatedRepository(p)

\* ------------------------------------------------------------------- C8
\* C8: a poll that returns no result and no error ends the polling, the
\* created repository is returned and the project goes on as after
\* Completed.
C8_NoResultNoErrorIsCompleted ==
    (Issued("GetImportRequest") /\ Result.currentRequest = Nil /\ ~Result.err) =>
        /\ pc # "GetImportRequest"
        /\ ContinuesAfterImport(Deref(call).project)

\* Witness of C8: after such a poll the merge requests of the project are
\* about to be listed for the created repository.
C8_Witness ==
    /\ Issued("GetImportRequest")
    /\ Result.currentRequest = Nil
    /\ ~Result.err
    /\ pc = "ListProjectMergeRequests"
    /\ repository = CreatedRepository(i)

\* ------------------------------------------------------------------- C9
\* The fetches of one loop ask for the pages 1, 2, ... in turn, and each
\* fetch but the last got a response with NextPage > CurrentPage.
PagesInTurn(pages) ==
    \A k \in 1..Len(pages) :
        /\ pages[k].Page = k
        /\ k < Len(pages) =>
             /\ pages[k].response # Nil
             /\ Deref(pages[k].response).NextPage > Deref(pages[k].response).CurrentPage

\* The response of the last fetch says that there is no further page.
LastPageSeen(pages) ==
    /\ pages # <<>>
    /\ pages[Len(pages)].response # Nil
    /\ Deref(pages[Len(pages)].response).NextPage
         <= Deref(pages[Len(pages)].response).CurrentPage

\* C9: in both fetch loops a page whose response has NextPage <= CurrentPage
\* is the last page requested (one list call when it is the first page); the
\* pages requested are 1, 2, ... in turn, each once, and the loop goes on
\* only while NextPage > CurrentPage.
C9_PaginationStops ==
    /\ PagesInTurn(mrPages)
    /\ PagesInTurn(discPages)
    /\ pc = "ListProjectMergeRequests" =>
         /\ gitlabMROptions = Len(mrPages) + 1
         /\ ~LastPageSeen(mrPages)
    /\ pc = "ListMergeRequestDiscussions" =>
         /\ discussionOptions = Len(discPages) + 1
         /\ ~LastPageSeen(discPages)
    /\ (mrPages # <<>> /\ gitlabMROptions = 0) => LastPageSeen(mrPages)
    /\ (discPages # <<>> /\ discussionOptions = 0 /\ pc # "panic") => LastPageSeen(discPages)

\* Witness of C9: both loops have asked for two pages, and the discussion
\* loop has ended after its second page.
C9_Witness ==
    /\ Len(mrPages) = 2
    /\ Len(discPages) = 2
    /\ LastPageSeen(discPages)
    /\ discussionOptions = 0

\* ------------------------------------------------------------------ C10
\* The last step met a per-project error.
PerProjectError ==
    \/ Issued("GetProject") /\ Result.err
    \/ Issued("DeleteRepository") /\ Result.err
    \/ Issued("CreateRepository") /\ Result.err
    \/ Issued("CreateImportRequest") /\ Result.err
    \/ Issued("GetImportRequest") /\ StatusOf(Result) \in {"failed", "abandoned"}

\* The run has ended: main has returned, or the process has died.
RunEnded == pc \in {"done", "panic"}

\* C10: a per-project error stops the remaining steps of its project (the
\* failing call is the last call made for it) and the run goes on with the
\* next project; the projects are attempted in the order of the
\* configuration, each once, and all of them by the time the run has ended.
C10_PerProjectErrorSkipsProject ==
    /\ PerProjectError =>
         /\ Deref(call).project \in aborted
         /\ NoFurtherStep(Deref(call).project)
    /\ \A p \in aborted :
         /\ p < i
         /\ (call # Nil /\ Deref(call).project = p) => PerProjectError
    /\ attempted = [k \in 1..Len(attempted) |-> k]
    /\ Len(attempted) = IF pc \in {"GetProject", "done"} THEN i - 1 ELSE i
    /\ RunEnded => Len(attempted) = Len(configFile)

\* ------------------------------------------------------------------ C11
\* The last step issued the call op and the call failed.
Failed(op) == Issued(op) /\ Result.err

\* The range loop of importMergeRequests goes on behind the merge request it
\* stands at: with the next one of the page, else with the next page, else
\* the loop is over and no discussion step follows.
NextMergeRequest ==
    /\ pullRequest' = Nil
    /\ pc' \notin {"ListMergeRequestDiscussions", "importCommentThread", "UpdateThread"}
    /\ IF mrIdx < Len(mergeRequests)
       THEN /\ pc' = "importMergeRequest"
            /\ mergeRequests' = mergeRequests
            /\ mrIdx' = mrIdx + 1
       ELSE IF HasNextPage(Deref(mrResponse))
       THEN /\ pc' = "ListProjectMergeRequests"
            /\ gitlabMROptions' = gitlabMROptions + 1
       ELSE pc' \in {"ArchiveProject", "GetProject", "done"}

\* The range loop of importComments goes on behind the discussion it stands
\* at, for the same merge request: with the next discussion of the page,
\* else with the next page; after the last one the merge-request loop goes
\* on.
NextDiscussion ==
    IF discIdx < Len(discussions)
    THEN /\ pc' = "importCommentThread"
         /\ discussions' = discussions
         /\ discIdx' = discIdx + 1
         /\ UNCHANGED <<mergeRequests, mrIdx>>
    ELSE IF HasNextPage(Deref(discResponse))
    THEN /\ pc' = "ListMergeRequestDiscussions"
         /\ discussionOptions' = discussionOptions + 1
         /\ UNCHANGED <<mergeRequests, mrIdx>>
    ELSE NextMergeRequest

\* C11: a failed CreatePullRequest is followed by no fetch and no migration
\* of the discussions of its merge request, and the next merge request is
\* processed; after a failed CreateThread or UpdateThread the next
\* discussion of the same merge request is processed; the failed call is
\* not issued again for its item.
C11_ItemFailureSkipsOnlyItem ==
    [][ /\ (pc = "importMergeRequest" /\ Failed("CreatePullRequest")') => NextMergeRequest
        /\ (pc = "importCommentThread" /\ Failed("CreateThread")') => NextDiscussion
        /\ (pc = "UpdateThread" /\ Failed("UpdateThread")') => NextDiscussion ]_vars

\* Witness of C11: the update of the first discussion of a page failed and
\* the second discussion of the page is about to be migrated.
C11_Witness ==
    /\ Failed("UpdateThread")
    /\ pc = "importCommentThread"
    /\ discIdx = 2
    /\ Deref(item) = discussions[1]

\* ------------------------------------------------------------------ C12
\* The last step looked the destination repository up and found one.
FoundRepository == Issued("GetRepository") /\ Result.repo # Nil

\* The run moves to the next project, or ends after the last one.
NextProject ==
    /\ i' = i + 1
    /\ pc' = IF i + 1 > Len(configFile) THEN "done" ELSE "GetProject"

\* C12: DeleteRepository is issued only with the recreate flag set and right
\* after a lookup that found a repository; without the flag there is neither
\* lookup nor deletion; the deletion comes at most once per project, before
\* the project's CreateRepository and never after it; a failed deletion ends
\* the project without a CreateRepository.
C12_DeleteOnlyBeforeCreate ==
    [][ /\ pc' = "GetProject" => i' = i + 1
        /\ pc' = "GetRepository" =>
             /\ pc = "GetProject"
             /\ recreateRepository
             /\ i' = i
        /\ pc' = "DeleteRepository" =>
             /\ pc = "GetRepository"
             /\ recreateRepository
             /\ FoundRepository'
             /\ i' = i
        /\ pc = "DeleteRepository" =>
             IF Failed("DeleteRepository")'
             THEN NextProject
             ELSE pc' = "CreateRepository" /\ i' = i
        /\ pc' = "CreateRepository" =>
             /\ pc \in {"GetProject", "GetRepository", "DeleteRepository"}
             /\ i' = i
        /\ pc = "CreateRepository" =>
             pc' \in {"CreateImportRequest", "GetProject", "done"} ]_vars

\* Witness of C12: the repository found was deleted and the new one is about
\* to be created.
C12_Witness ==
    /\ recreateRepository
    /\ Issued("DeleteRepository")
    /\ ~Result.err
    /\ pc = "CreateRepository"

\* ------------------------------------------------------------------ C13
\* C13: a GIT: line is logged for a project only if its repository was
\* imported: there is none for a project that was given up because its
\* import job could not be created or ended Failed or Abandoned.
C13_GitLineOnlyIfImported ==
    \A p \in gitLog : p \notin aborted

\* ------------------------------------------------------------------ C14
\* C14: the payload that creates the thread carries a file context exactly
\* when the first note has a position with a non-empty new path; the
\* context names that path, and its start and end line are both the start of
\* the line range when the position has one and the line of the position
\* otherwise; the payload with the replies carries no file context.
C14_ThreadFileContext ==
    (Returned("translateDiscussion") /\ Output[1] # Nil) =>
        LET first == Input.discussion[1]
            context == Deref(Output[1]).ThreadContext
        IN  /\ context # Nil <=> HasFilePosition(first)
            /\ context # Nil =>
                 LET pos == Deref(first.Position)
                     line == IF pos.LineRange # Nil
                             THEN Deref(pos.LineRange).StartRange.NewLine
                             ELSE pos.NewLine
                 IN  /\ Deref(context).FilePath = <<"/", pos.NewPath>>
                     /\ Deref(context).RightFileStart.Line = line
                     /\ Deref(context).RightFileEnd.Line = line
            /\ Output[2] # Nil => Deref(Output[2]).ThreadContext = Nil

\* Witness of C14: the first note of a discussion with replies stands on
\* line 2 with the line range 1-2, and the creating payload carries the
\* context of line 1.
C14_Witness ==
    /\ Returned("translateDiscussion")
    /\ Len(Input.discussion) > 1
    /\ Input.discussion[1].Position = Ptr(Position("README.md", 2, Ptr(LineRange(1, 2))))
    /\ Output[1] # Nil
    /\ Deref(Output[1]).ThreadContext # Nil
    /\ Deref(Deref(Output[1]).ThreadContext).RightFileEnd.Line = 1
    /\ Output[2] # Nil

\* ------------------------------------------------------------------ C15
\* The identifier of the thread CreateThread makes for a discussion.
ThreadIdOf(discussion) == discussion[1].ID

\* C15: UpdateThread is issued only when a payload with the replies exists
\* and right after the CreateThread of the same discussion succeeded, with
\* the thread id that CreateThread returned, and then the loop moves on, so
\* that it is issued at most once for a discussion; a discussion of one note
\* gets its CreateThread and no UpdateThread, and no UpdateThread follows a
\* failed CreateThread.
C15_UpdateThreadAfterCreateThread ==
    /\ pc = "UpdateThread" =>
         /\ Issued("CreateThread")
         /\ ~Result.err
         /\ Deref(item) = discussions[discIdx]
         /\ Len(discussions[discIdx]) > 1
         /\ fullThread # Nil
         /\ createdThread = Ptr([Id |-> ThreadIdOf(discussions[discIdx])])
    /\ Issued("UpdateThread") =>
         /\ pc # "UpdateThread"
         /\ Result.ThreadId = ThreadIdOf(Deref(item))
         /\ Result.CommentThread # Nil
         /\ Deref(Result.CommentThread).Id = Ptr(ThreadIdOf(Deref(item)))
         /\ Len(Deref(Result.CommentThread).Comments) = Len(Deref(item)) - 1
    /\ (Issued("CreateThread") /\ Result.err) => pc # "UpdateThread"
    /\ (step = "importCommentThread" /\ Len(Deref(item)) = 1 /\ ~Deref(item)[1].System) =>
         /\ Issued("CreateThread")
         /\ pc # "UpdateThread"

\* Witness of C15: the thread of a discussion of two notes was created and
\* then updated under the identifier of the created thread.
C15_Witness ==
    /\ Issued("UpdateThread")
    /\ ~Result.err
    /\ Len(Deref(item)) = 2
    /\ Result.ThreadId = ThreadIdOf(Deref(item))

\* ------------------------------------------------------------------ C16
\* The steps of the migration of merge requests.
MigrationSteps ==
    {"ListProjectMergeRequests", "importMergeRequest", "ListMergeRequestDiscussions",
     "importCommentThread", "UpdateThread"}

\* The last step polled the import request and saw it completed (no result
\* and no error counting as completed).
ImportCompleted ==
    /\ Issued("GetImportRequest")
    /\ \/ StatusOf(Result) = "completed"
       \/ Result.currentRequest = Nil /\ ~Result.err

\* C16: within a project CreateRepository comes before CreateImportRequest,
\* which comes before every poll; the migration of merge requests, with its
\* CreatePullRequest and CreateThread calls, starts only after a poll saw
\* the import completed, and only for a project whose migrate flag is set;
\* every call is made for the project in work, and the projects are worked
\* on one after the other, so that the calls for a project all come before
\* those for the next.
C16_CallsInOrder ==
    [][ /\ i' \in {i, i + 1}
        /\ (call' # Nil /\ pc # "done" /\ pc # "panic") => Deref(call').project = i
        /\ pc' = "CreateImportRequest" =>
             /\ pc = "CreateRepository"
             /\ i' = i
             /\ Issued("CreateRepository")' /\ ~Result.err'
        /\ pc' = "GetImportRequest" =>
             /\ pc \in {"CreateImportRequest", "GetImportRequest"}
             /\ i' = i
             /\ pc = "CreateImportRequest" => Issued("CreateImportRequest")' /\ ~Result.err'
        /\ pc' \in MigrationSteps =>
             /\ pc \in {"GetImportRequest"} \cup MigrationSteps
             /\ i' = i
             /\ configFile[i].MigrateMRs
             /\ pc = "GetImportRequest" =>
                  pc' = "ListProjectMergeRequests" /\ ImportCompleted'
        /\ call' # Nil /\ Deref(call').op \in {"CreatePullRequest", "CreateThread"} =>
             pc \in MigrationSteps ]_vars

\* Witness of C16: the first project does not migrate its merge requests,
\* and a thread was created for the second project.
C16_Witness ==
    /\ i = 2
    /\ ~configFile[1].MigrateMRs
    /\ 1 \notin aborted
    /\ Issued("CreateThread")
    /\ Deref(call).project = 2

C18_PollErrorWithoutResult ==
    (Issued("GetImportRequest") /\ Result.currentRequest = Nil /\ Result.err) =>
        /\ pc # "panic"
        /\ NoFurtherStep(Deref(call).project)

\* ------------------------------------------------------------------ C19
\* The last step asked for a page of merge requests, or of discussions, and
\* the call failed.
ListingFailed(op) == Issued(op) /\ Result.listing.err

\* C19: after a list call that failed, with or without a response object,
\* the run has not crashed and the fetch loop is over or stands at its next
\* page; no item of the failed page is worked on; after a failed page of
\* discussions the run stands in the loop of the merge requests or behind
\* it, after a failed page of merge requests behind that loop.
C19_ListErrorDoesNotCrash ==
    /\ ListingFailed("ListProjectMergeRequests") =>
         /\ pc \in {"ListProjectMergeRequests", "ArchiveProject", "GetProject", "done"}
         /\ mergeRequests = <<>>
    /\ ListingFailed("ListMergeRequestDiscussions") =>
         /\ pc \in {"ListMergeRequestDiscussions", "importMergeRequest",
                     "ListProjectMergeRequests", "ArchiveProject", "GetProject", "done"}
         /\ discussions = <<>>

\* ------------------------------------------------------------------ C20
\* The last poll reported a status that is not terminal.
NotTerminal ==
    /\ Issued("GetImportRequest")
    /\ StatusOf(Result) \in {"queued", "inProgress"}

\* C20: when every import job comes to report a terminal status and every
\* listing comes to a last page, the run ends with main returning after
\* every configured project was attempted; and as long as the polls of a
\* job report no terminal status the poll loop goes on and no later project
\* is taken up.
C20_RunTerminates ==
    /\ <>(pc = "done" /\ Len(attempted) = Len(configFile))
    /\ [][(pc = "GetImportRequest" /\ NotTerminal') =>
            (pc' = "GetImportRequest" /\ i' = i)]_vars

====
